---- MODULE Spec2Model ----
(***************************************************************************)
(* Model of the resilient scraper of exo6.py (class ResilientScraper and   *)
(* main): adaptive delay, block detection, bounded retry, checkpointing    *)
(* and the catalogue crawl loop.                                           *)
(*                                                                         *)
(* Abstractions:                                                           *)
(*  - a float delay is the exact rational <<n, d>> in lowest terms;        *)
(*  - a timestamp (datetime.now()) is the number of the run it is taken in;*)
(*  - a response text is a sequence of one-character strings;              *)
(*  - a JSON object is the sequence of its key/value entries in the order  *)
(*    json.dump writes them; the file on disk is the entries written so    *)
(*    far and whether the closing brace has been written;                  *)
(*  - a book URL is its key, a small integer.                              *)
(*  - a KeyboardInterrupt is raised while the try block of                 *)
(*    scrape_catalogue runs: between two steps, inside make_request        *)
(*    (time.sleep, session.get) or inside scrape_book between the append   *)
(*    and the count; the except and finally clauses and main are not       *)
(*    interrupted in their turn;                                           *)
(*  - the time slept is recorded for the last attempt of the running       *)
(*    fetch: the base sleep and the backoff that followed it.              *)
(*                                                                         *)
(* Specifications: Spec (catalogue crawl with crash and restart),          *)
(* SpecFetch (small site, a fetch may exhaust its retries), SpecExit       *)
(* (SpecFetch with a KeyboardInterrupt), SpecLive (two-page site under     *)
(* weak fairness, for termination), SpecDelay and SpecClassify (the rate   *)
(* controller and the block detector on their own).                        *)
(***************************************************************************)
EXTENDS Integers, Sequences, FiniteSets, TLC

(* ---------------- bounds of the model ---------------- *)
\* adverse events (blocked response, timeout, request error, parse error)
\* the environment may produce over all runs of the catalogue crawl
MaxFaults == 1
\* the same for the crawl of the small site, where a fetch can run out of
\* retries
MaxFetchFaults == 7
\* the same for the crawl of the two-page site whose termination is checked
MaxLiveFaults == 6
\* process runs (a crash or an exit may be followed by a restart)
MaxRuns == 2
\* calls of adaptive_delay in the unit specification of the rate controller
MaxAdapt == 7

(* ---------------- program constants ---------------- *)
max_retries == 5
CheckpointEvery == 10
\* delays as rationals <<numerator, denominator>>
InitialDelay == <<1, 1>>
min_delay == <<1, 2>>
max_delay == <<10, 1>>
SuccessFactor == <<9, 10>>
FailureFactor == <<3, 2>>
BlockedStatuses == {403, 429}
Captcha == <<"c", "a", "p", "t", "c", "h", "a">>

(* ---------------- rational arithmetic for the delay ---------------- *)
Gcd[a \in Nat, b \in Nat] == IF b = 0 THEN a ELSE Gcd[b, a % b]

Norm(q) == LET g == Gcd[q[1], q[2]] IN <<q[1] \div g, q[2] \div g>>

Mul(p, q) == Norm(<<p[1] * q[1], p[2] * q[2]>>)

\* p <= q, cross-multiplied after removing the common factors
Leq(p, q) ==
    LET gn == Gcd[p[1], q[1]]
        gd == Gcd[p[2], q[2]]
    IN  (p[1] \div gn) * (q[2] \div gd) <= (q[1] \div gn) * (p[2] \div gd)

RMax(p, q) == IF Leq(p, q) THEN q ELSE p
RMin(p, q) == IF Leq(p, q) THEN p ELSE q

\* adaptive_delay without the lower clamp
adaptive_delay_NoFloor(d, success) ==
    IF success
    THEN Mul(d, SuccessFactor)
    ELSE RMin(max_delay, Mul(d, FailureFactor))

\* adaptive_delay without the upper clamp
adaptive_delay_NoCeiling(d, success) ==
    IF success
    THEN RMax(min_delay, Mul(d, SuccessFactor))
    ELSE Mul(d, FailureFactor)

\* adaptive_delay: the new value of self.delay
adaptive_delay(d, success) ==
    IF success
    THEN RMax(min_delay, Mul(d, SuccessFactor))
    ELSE RMin(max_delay, Mul(d, FailureFactor))

(* ---------------- block detection ---------------- *)
\* str.lower() on the characters the model uses
LowerChar(c) ==
    CASE c = "C" -> "c"
      [] c = "A" -> "a"
      [] c = "P" -> "p"
      [] c = "T" -> "t"
      [] c = "H" -> "h"
      [] c = "X" -> "x"
      [] OTHER -> c

Lower(s) == [i \in 1..Len(s) |-> LowerChar(s[i])]

\* needle in hay (Python's substring test)
Contains(hay, needle) ==
    \E i \in 1..(Len(hay) - Len(needle) + 1) :
        SubSeq(hay, i, i + Len(needle) - 1) = needle

\* detect_blocking without the call of lower()
detect_blocking_CaseSensitive(st, r) ==
    IF r.status \in BlockedStatuses
    THEN [blocked |-> TRUE,
          stats |-> [st EXCEPT !.blocked_detections = @ + 1]]
    ELSE IF Contains(r.text, Captcha)
    THEN [blocked |-> TRUE,
          stats |-> [st EXCEPT !.blocked_detections = @ + 1]]
    ELSE [blocked |-> FALSE, stats |-> st]

\* detect_blocking: the returned flag and the updated stats
detect_blocking(st, r) ==
    IF r.status \in BlockedStatuses
    THEN [blocked |-> TRUE,
          stats |-> [st EXCEPT !.blocked_detections = @ + 1]]
    ELSE IF Contains(Lower(r.text), Captcha)
    THEN [blocked |-> TRUE,
          stats |-> [st EXCEPT !.blocked_detections = @ + 1]]
    ELSE [blocked |-> FALSE, stats |-> st]

\* Response.raise_for_status raises HTTPError for a 4xx or 5xx status
RaisesForStatus(r) == r.status >= 400 /\ r.status < 600

(* ---------------- checkpoint serialisation ---------------- *)
Entry(k, v) == [key |-> k, val |-> v]

\* dict.get(key, default) on a JSON object
Get(obj, k, default) ==
    IF \E i \in 1..Len(obj) : obj[i].key = k
    THEN obj[CHOOSE i \in 1..Len(obj) : obj[i].key = k].val
    ELSE default

BookToJson(b) ==
    <<Entry("url", b.url), Entry("title", b.title),
      Entry("scraped_at", b.scraped_at)>>

BookFromJson(j) ==
    [url |-> Get(j, "url", 0), title |-> Get(j, "title", "N/A"),
     scraped_at |-> Get(j, "scraped_at", 0)]

StatsToJson(st) ==
    <<Entry("total_requests", st.total_requests),
      Entry("successful_requests", st.successful_requests),
      Entry("failed_requests", st.failed_requests),
      Entry("retries", st.retries),
      Entry("blocked_detections", st.blocked_detections),
      Entry("start_time", st.start_time),
      Entry("books_scraped", st.books_scraped)>>

StatsFromJson(j) ==
    [total_requests |-> Get(j, "total_requests", 0),
     successful_requests |-> Get(j, "successful_requests", 0),
     failed_requests |-> Get(j, "failed_requests", 0),
     retries |-> Get(j, "retries", 0),
     blocked_detections |-> Get(j, "blocked_detections", 0),
     start_time |-> Get(j, "start_time", 0),
     books_scraped |-> Get(j, "books_scraped", 0)]

\* the entries json.dump writes for checkpoint_data, in order
CheckpointEntries(books, st, now) ==
    <<Entry("books", [i \in 1..Len(books) |-> BookToJson(books[i])]),
      Entry("stats", StatsToJson(st)),
      Entry("last_save", now)>>

NoFile == [exists |-> FALSE, entries |-> <<>>, closed |-> FALSE]
\* open(checkpoint_file, 'w') creates or truncates the file
TruncatedFile == [exists |-> TRUE, entries |-> <<>>, closed |-> FALSE]

\* json.load succeeds only on a complete document
Parses(f) == f.exists /\ f.closed

\* stats as set by __init__
InitialStats(now) ==
    [total_requests |-> 0, successful_requests |-> 0, failed_requests |-> 0,
     retries |-> 0, blocked_detections |-> 0, start_time |-> now,
     books_scraped |-> 0]

\* load_checkpoint that restores the books and not the stats
load_checkpoint_KeepsStats(f, books0, stats0) ==
    IF ~f.exists
    THEN [books |-> books0, stats |-> stats0, raised |-> FALSE]
    ELSE IF ~Parses(f)
    THEN [books |-> books0, stats |-> stats0, raised |-> FALSE]
    ELSE LET jb == Get(f.entries, "books", <<>>)
         IN  [books |-> [i \in 1..Len(jb) |-> BookFromJson(jb[i])],
              stats |-> stats0, raised |-> FALSE]

\* load_checkpoint without the try block around json.load
load_checkpoint_Unguarded(f, books0, stats0) ==
    IF ~f.exists
    THEN [books |-> books0, stats |-> stats0, raised |-> FALSE]
    ELSE IF ~Parses(f)
    THEN [books |-> books0, stats |-> stats0, raised |-> TRUE]
    ELSE LET jb == Get(f.entries, "books", <<>>)
             js == Get(f.entries, "stats", StatsToJson(stats0))
         IN  [books |-> [i \in 1..Len(jb) |-> BookFromJson(jb[i])],
              stats |-> StatsFromJson(js), raised |-> FALSE]

\* load_checkpoint: the values of self.scraped_books and self.stats after it,
\* and whether an exception leaves it; the exception of json.load on a
\* document that does not parse is caught and logged
load_checkpoint(f, books0, stats0) ==
    IF ~f.exists
    THEN [books |-> books0, stats |-> stats0, raised |-> FALSE]
    ELSE IF ~Parses(f)
    THEN [books |-> books0, stats |-> stats0, raised |-> FALSE]
    ELSE LET jb == Get(f.entries, "books", <<>>)
             js == Get(f.entries, "stats", StatsToJson(stats0))
         IN  [books |-> [i \in 1..Len(jb) |-> BookFromJson(jb[i])],
              stats |-> StatsFromJson(js), raised |-> FALSE]

(* ---------------- the site being crawled ---------------- *)
\* book keys listed by each catalogue page; a key may be listed twice on a
\* page and on two pages
Catalogue == << <<1, 2, 3, 2, 4, 5>>, <<5, 6, 7, 8, 9, 10, 11, 12>> >>
SmallCatalogue == << <<1, 2, 1>> >>
TinyCatalogue == << <<1>>, <<2>> >>

\* whether the page of book k has an h1 element
HasTitle(k) == k # 3

PlainText == <<"o", "k">>
CaptchaText == <<"C", "a", "p", "t", "c", "h", "a">>
Statuses == {200, 204, 403, 404, 429, 500}
CrawlResponses == [status : Statuses, text : {PlainText, CaptchaText}]

\* response texts of the unit specification of detect_blocking
UnitTexts ==
    { <<>>, <<"x">>, PlainText, Captcha, CaptchaText,
      <<"C", "A", "P", "T", "C", "H", "A">>,
      <<"c", "A", "p", "T", "c", "H", "a">>,
      <<"x", "c", "a", "p", "t", "c", "h", "a">>,
      <<"c", "a", "p", "t", "c", "h", "a", "x">>,
      <<"X", "C", "A", "P", "T", "C", "H", "A", "X">>,
      <<"c", "a", "p", "c", "a", "p", "t", "c", "h", "a">>,
      <<"c", "a", "p", "t", "c", "h">>,
      <<"a", "p", "t", "c", "h", "a">>,
      <<"c", "a", "p", "c", "h", "a">>,
      <<"c", "a", "p", "t", " ", "c", "h", "a">>,
      <<"c", "a", "p", "t", "c", "h", "x">>,
      <<"C", "A", "P", "T", "C", "H">>,
      <<"a", "h", "c", "t", "p", "a", "c">> }
UnitResponses == [status : Statuses, text : UnitTexts]
NoResponse == [status |-> 0, text |-> <<>>]

(* ---------------- state ---------------- *)
VARIABLES
    site,           \* the catalogue pages the server serves
    budget,         \* adverse events the environment is allowed
    pc,             \* position of the process
    run,            \* number of the current run of the process
    file,           \* the checkpoint file on disk
    results,        \* number of result files written by save_results
    faults,         \* adverse events the environment has produced
    scraped_books,  \* self.scraped_books
    stats,          \* self.stats
    delay,          \* self.delay
    page,           \* page of scrape_catalogue
    link,           \* index of the for loop over the books of the page
    retries,        \* argument retries of the running make_request
    caller,         \* who called make_request: "page" or "book"
    ret,            \* value returned by make_request: "none" or "response"
    saveRet,        \* where save_checkpoint returns to
    exc,            \* an exception is propagating out of scrape_catalogue
    attempts,       \* history: HTTP requests sent by the current fetch
    requested,      \* history: book keys requested in this run
    skipped,        \* history: book keys skipped as already scraped, this run
    loaded,         \* history: what load_checkpoint set at construction
    lastFull,       \* history: content of the last completely written save
    cause,          \* history: why scrape_catalogue left its loop
    lastTry,        \* history: the state when save_checkpoint was last called
    fetch0,         \* history: stats and delay when the current fetch began
    slept,          \* history: the sleeps of the last attempt of the fetch
    firstKind,      \* history: how the first attempt of the fetch ended
    lastKind,       \* history: how the last attempt of the fetch ended
    exit,           \* how the last run of the process ended
    uIn,            \* unit specifications: the argument
    uOut,           \* unit specifications: the call made and its result
    uCalls          \* unit specifications: number of calls made

procVars == <<scraped_books, stats, delay, page, link, retries, caller, ret,
              saveRet, exc, attempts, requested, skipped, loaded>>
unitVars == <<uIn, uOut, uCalls>>
envVars == <<site, budget>>
histVars == <<cause, fetch0, slept, firstKind, lastKind>>
vars == <<envVars, pc, run, file, results, faults, procVars, lastFull,
          histVars, lastTry, exit, unitVars>>

\* soup.find_all('article', class_='product_pod') of a catalogue page; a page
\* after the last one lists nothing
Links(p) == IF p \in 1..Len(site) THEN site[p] ELSE <<>>

NoSave == [written |-> FALSE, books |-> <<>>, stats |-> InitialStats(0)]
NoLoad == [books |-> <<>>, stats |-> InitialStats(0)]
NoCall == [op |-> "none", blocked |-> FALSE, before |-> InitialDelay]
NoTry == [tried |-> FALSE, books |-> <<>>, stats |-> InitialStats(0)]
NoFetch == [stats |-> InitialStats(0), delay |-> InitialDelay]
NoSleep == [base |-> <<0, 1>>, wait |-> <<0, 1>>]
NoExit == [code |-> 0, printed |-> FALSE, saved |-> FALSE, cause |-> "none"]

\* the memory of a process that does not run
ProcessGone ==
    /\ scraped_books' = <<>>
    /\ stats' = InitialStats(0)
    /\ delay' = InitialDelay
    /\ page' = 0
    /\ link' = 0
    /\ retries' = 0
    /\ caller' = "none"
    /\ ret' = "none"
    /\ saveRet' = "none"
    /\ exc' = FALSE
    /\ attempts' = 0
    /\ requested' = {}
    /\ skipped' = {}
    /\ loaded' = NoLoad
    /\ cause' = "none"
    /\ lastTry' = NoTry
    /\ fetch0' = NoFetch
    /\ slept' = NoSleep
    /\ firstKind' = "none"
    /\ lastKind' = "none"

InitProcess ==
    /\ scraped_books = <<>>
    /\ stats = InitialStats(0)
    /\ delay = InitialDelay
    /\ page = 0
    /\ link = 0
    /\ retries = 0
    /\ caller = "none"
    /\ ret = "none"
    /\ saveRet = "none"
    /\ exc = FALSE
    /\ attempts = 0
    /\ requested = {}
    /\ skipped = {}
    /\ loaded = NoLoad
    /\ cause = "none"
    /\ lastTry = NoTry
    /\ fetch0 = NoFetch
    /\ slept = NoSleep
    /\ firstKind = "none"
    /\ lastKind = "none"

Init ==
    /\ site = Catalogue
    /\ budget = MaxFaults
    /\ pc = "start"
    /\ run = 1
    /\ file = NoFile
    /\ results = 0
    /\ faults = 0
    /\ InitProcess
    /\ lastFull = NoSave
    /\ exit = NoExit
    /\ uIn = NoResponse
    /\ uOut = NoCall
    /\ uCalls = 0

(* ---------------- construction ---------------- *)
\* ResilientScraper.__init__, load_checkpoint included
Construct ==
    /\ UNCHANGED <<histVars, lastTry, exit>>
    /\ pc = "start"
    /\ LET ld == load_checkpoint(file, <<>>, InitialStats(run))
       IN  /\ scraped_books' = ld.books
           /\ stats' = ld.stats
           /\ loaded' = [books |-> ld.books, stats |-> ld.stats]
           /\ pc' = IF ld.raised THEN "load_failed" ELSE "idle"
    /\ delay' = InitialDelay
    /\ UNCHANGED <<envVars, run, file, results, faults, page, link, retries, caller,
                   ret, saveRet, exc, attempts, requested, skipped, lastFull,
                   unitVars>>

\* main calls scrape_catalogue: page = 1
StartCatalogue ==
    /\ UNCHANGED <<histVars, lastTry, exit>>
    /\ pc = "idle"
    /\ page' = 1
    /\ pc' = "page"
    /\ UNCHANGED <<envVars, run, file, results, faults, scraped_books, stats, delay,
                   link, retries, caller, ret, saveRet, exc, attempts,
                   requested, skipped, loaded, lastFull, unitVars>>

(* ---------------- make_request ---------------- *)
\* scrape_catalogue calls make_request(url) for the page
FetchPage ==
    /\ fetch0' = [stats |-> stats, delay |-> delay]
    /\ slept' = NoSleep
    /\ firstKind' = "none"
    /\ lastKind' = "none"
    /\ UNCHANGED <<cause, lastTry, exit>>
    /\ pc = "page"
    /\ retries' = 0
    /\ attempts' = 0
    /\ caller' = "page"
    /\ pc' = "req"
    /\ UNCHANGED <<envVars, run, file, results, faults, scraped_books, stats, delay,
                   page, link, ret, saveRet, exc, requested, skipped, loaded,
                   lastFull, unitVars>>

ReturnPc == IF caller = "page" THEN "page_ret" ELSE "book_ret"

\* make_request returns None or the response to its first caller
Return(value) ==
    /\ ret' = value
    /\ pc' = ReturnPc
    /\ UNCHANGED retries

\* return self.make_request(url, retries + 1)
Recurse ==
    /\ retries' = retries + 1
    /\ pc' = "req"
    /\ UNCHANGED ret

\* the Timeout handler calling adaptive_delay(False) at every retry
OnTimeout_AdaptsOnRetry(st) ==
    IF retries < max_retries
    THEN /\ stats' = [st EXCEPT !.retries = @ + 1]
         /\ delay' = adaptive_delay(delay, FALSE)
         /\ Recurse
    ELSE /\ stats' = [st EXCEPT !.failed_requests = @ + 1]
         /\ delay' = adaptive_delay(delay, FALSE)
         /\ Return("none")

\* the Timeout handler counting a failed request at every retry
OnTimeout_RetryAlsoFails(st) ==
    IF retries < max_retries
    THEN /\ stats' = [st EXCEPT !.retries = @ + 1, !.failed_requests = @ + 1]
         /\ UNCHANGED delay
         /\ Recurse
    ELSE /\ stats' = [st EXCEPT !.failed_requests = @ + 1]
         /\ delay' = adaptive_delay(delay, FALSE)
         /\ Return("none")

\* the Timeout handler retrying once more than max_retries
OnTimeout_OneMore(st) ==
    IF retries <= max_retries
    THEN /\ stats' = [st EXCEPT !.retries = @ + 1]
         /\ UNCHANGED delay
         /\ Recurse
    ELSE /\ stats' = [st EXCEPT !.failed_requests = @ + 1]
         /\ delay' = adaptive_delay(delay, FALSE)
         /\ Return("none")

\* the handler of requests.exceptions.Timeout; st is self.stats when the
\* exception is raised
OnTimeout(st) ==
    IF retries < max_retries
    THEN /\ stats' = [st EXCEPT !.retries = @ + 1]
         /\ UNCHANGED delay
         /\ Recurse
    ELSE /\ stats' = [st EXCEPT !.failed_requests = @ + 1]
         /\ delay' = adaptive_delay(delay, FALSE)
         /\ Return("none")

\* the RequestException handler giving up without adaptive_delay(False)
OnRequestException_NoAdapt(st) ==
    IF retries < max_retries
    THEN /\ stats' = [st EXCEPT !.retries = @ + 1]
         /\ UNCHANGED delay
         /\ Recurse
    ELSE /\ stats' = [st EXCEPT !.failed_requests = @ + 1]
         /\ UNCHANGED delay
         /\ Return("none")

\* the handler of requests.exceptions.RequestException
OnRequestException(st) ==
    IF retries < max_retries
    THEN /\ stats' = [st EXCEPT !.retries = @ + 1]
         /\ UNCHANGED delay
         /\ Recurse
    ELSE /\ stats' = [st EXCEPT !.failed_requests = @ + 1]
         /\ delay' = adaptive_delay(delay, FALSE)
         /\ Return("none")

\* the try block calling adaptive_delay(False) before it retries a blocked
\* response
OnResponse_AdaptsOnBlockedRetry(st, r) ==
    LET d == detect_blocking(st, r)
    IN  IF d.blocked
        THEN IF retries < max_retries
             THEN /\ stats' = [d.stats EXCEPT !.retries = @ + 1]
                  /\ delay' = adaptive_delay(delay, FALSE)
                  /\ Recurse
             ELSE /\ stats' = [d.stats EXCEPT !.failed_requests = @ + 1]
                  /\ UNCHANGED delay
                  /\ Return("none")
        ELSE IF RaisesForStatus(r)
        THEN OnRequestException(d.stats)
        ELSE /\ stats' = [d.stats EXCEPT !.successful_requests = @ + 1]
             /\ delay' = adaptive_delay(delay, TRUE)
             /\ Return("response")

\* the try block without response.raise_for_status()
OnResponse_NoRaise(st, r) ==
    LET d == detect_blocking(st, r)
    IN  IF d.blocked
        THEN IF retries < max_retries
             THEN /\ stats' = [d.stats EXCEPT !.retries = @ + 1]
                  /\ UNCHANGED delay
                  /\ Recurse
             ELSE /\ stats' = [d.stats EXCEPT !.failed_requests = @ + 1]
                  /\ UNCHANGED delay
                  /\ Return("none")
        ELSE /\ stats' = [d.stats EXCEPT !.successful_requests = @ + 1]
             /\ delay' = adaptive_delay(delay, TRUE)
             /\ Return("response")

\* the body of the try block once session.get has returned response r
OnResponse(st, r) ==
    LET d == detect_blocking(st, r)
    IN  IF d.blocked
        THEN IF retries < max_retries
             THEN /\ stats' = [d.stats EXCEPT !.retries = @ + 1]
                  /\ UNCHANGED delay
                  /\ Recurse
             ELSE /\ stats' = [d.stats EXCEPT !.failed_requests = @ + 1]
                  /\ UNCHANGED delay
                  /\ Return("none")
        ELSE IF RaisesForStatus(r)
        THEN OnRequestException(d.stats)
        ELSE /\ stats' = [d.stats EXCEPT !.successful_requests = @ + 1]
             /\ delay' = adaptive_delay(delay, TRUE)
             /\ Return("response")

\* the environment's cost of a response: anything but a clean page
IsFault(r) == detect_blocking(stats, r).blocked \/ RaisesForStatus(r)

\* self.stats['total_requests'] += 1 that counts only the running fetch
Counted_PerFetch == [stats EXCEPT !.total_requests = retries + 1]

\* self.stats['total_requests'] += 1
Counted == [stats EXCEPT !.total_requests = @ + 1]

\* time.sleep(self.delay) taken by the first attempt of a fetch only
BaseSleep_FirstAttemptOnly == IF retries = 0 THEN delay ELSE <<0, 1>>

\* time.sleep(self.delay) at the head of make_request: the time slept
BaseSleep == delay

\* the backoff of a retry, linear in the attempt for a blocked response too
Wait_LinearOnBlocked(kind) ==
    IF retries < max_retries
    THEN IF kind = "blocked"
         THEN Mul(delay, <<retries + 1, 1>>)
         ELSE IF kind \in {"error", "http_error"}
         THEN Mul(delay, <<retries + 1, 1>>)
         ELSE <<0, 1>>
    ELSE <<0, 1>>

\* the time make_request sleeps after an attempt that ended as kind, before
\* it calls itself again: delay * 2 ** retries after a blocked response,
\* delay * (retries + 1) in the RequestException handler, nothing in the
\* Timeout handler, nothing when no retry follows
Wait(kind) ==
    IF retries < max_retries
    THEN IF kind = "blocked"
         THEN Mul(delay, <<2 ^ retries, 1>>)
         ELSE IF kind \in {"error", "http_error"}
         THEN Mul(delay, <<retries + 1, 1>>)
         ELSE <<0, 1>>
    ELSE <<0, 1>>

\* how the first attempt of the running fetch ended, kind being how this one
\* ends
First(kind) == IF retries = 0 THEN kind ELSE firstKind

\* which branch of make_request a response takes
ResponseKind(r) ==
    IF detect_blocking(stats, r).blocked THEN "blocked"
    ELSE IF RaisesForStatus(r) THEN "http_error"
    ELSE "ok"

\* one invocation of make_request in which session.get returns a response
RequestResponse ==
    /\ UNCHANGED <<cause, fetch0, lastTry, exit>>
    /\ pc = "req"
    /\ \E r \in CrawlResponses :
        /\ IsFault(r) => faults < budget
        /\ faults' = IF IsFault(r) THEN faults + 1 ELSE faults
        /\ OnResponse(Counted, r)
        /\ lastKind' = ResponseKind(r)
        /\ firstKind' = First(ResponseKind(r))
        /\ slept' = [base |-> BaseSleep, wait |-> Wait(ResponseKind(r))]
    /\ attempts' = attempts + 1
    /\ UNCHANGED <<envVars, run, file, results, scraped_books, page, link, caller,
                   saveRet, exc, requested, skipped, loaded, lastFull,
                   unitVars>>

\* one invocation of make_request in which session.get times out
RequestTimeout ==
    /\ lastKind' = "timeout"
    /\ firstKind' = First("timeout")
    /\ slept' = [base |-> BaseSleep, wait |-> Wait("timeout")]
    /\ UNCHANGED <<cause, fetch0, lastTry, exit>>
    /\ pc = "req"
    /\ faults < budget
    /\ faults' = faults + 1
    /\ OnTimeout(Counted)
    /\ attempts' = attempts + 1
    /\ UNCHANGED <<envVars, run, file, results, scraped_books, page, link, caller,
                   saveRet, exc, requested, skipped, loaded, lastFull,
                   unitVars>>

\* one invocation of make_request in which session.get raises another
\* RequestException (connection error)
RequestError ==
    /\ lastKind' = "error"
    /\ firstKind' = First("error")
    /\ slept' = [base |-> BaseSleep, wait |-> Wait("error")]
    /\ UNCHANGED <<cause, fetch0, lastTry, exit>>
    /\ pc = "req"
    /\ faults < budget
    /\ faults' = faults + 1
    /\ OnRequestException(Counted)
    /\ attempts' = attempts + 1
    /\ UNCHANGED <<envVars, run, file, results, scraped_books, page, link, caller,
                   saveRet, exc, requested, skipped, loaded, lastFull,
                   unitVars>>

(* ---------------- scrape_catalogue and scrape_book ---------------- *)
\* a page loop that asks for the same page again when it holds no book
PageReturn_RefetchesEmptyPage ==
    /\ cause' = IF ret = "none" THEN "fetch_failed" ELSE cause
    /\ UNCHANGED <<fetch0, slept, firstKind, lastKind, lastTry, exit>>
    /\ pc = "page_ret"
    /\ IF ret = "none"
       THEN pc' = "finally" /\ UNCHANGED link
       ELSE IF Links(page) = <<>>
       THEN pc' = "page" /\ UNCHANGED link
       ELSE pc' = "link" /\ link' = 1
    /\ UNCHANGED <<envVars, run, file, results, faults, scraped_books, stats, delay,
                   page, retries, caller, ret, saveRet, exc, attempts,
                   requested, skipped, loaded, lastFull, unitVars>>

\* scrape_catalogue after make_request returned for the page
PageReturn ==
    /\ cause' = IF ret = "none" THEN "fetch_failed"
                ELSE IF Links(page) = <<>> THEN "empty_page"
                ELSE cause
    /\ UNCHANGED <<fetch0, slept, firstKind, lastKind, lastTry, exit>>
    /\ pc = "page_ret"
    /\ IF ret = "none"
       THEN pc' = "finally" /\ UNCHANGED link
       ELSE IF Links(page) = <<>>
       THEN pc' = "finally" /\ UNCHANGED link
       ELSE pc' = "link" /\ link' = 1
    /\ UNCHANGED <<envVars, run, file, results, faults, scraped_books, stats, delay,
                   page, retries, caller, ret, saveRet, exc, attempts,
                   requested, skipped, loaded, lastFull, unitVars>>

\* book.find('h3').find('a')['href'] raises on an article without the link:
\* the exception leaves the while loop for the except Exception clause
ListingParseError ==
    /\ cause' = "parse_error"
    /\ UNCHANGED <<fetch0, slept, firstKind, lastKind, lastTry, exit>>
    /\ pc = "link"
    /\ faults < budget
    /\ faults' = faults + 1
    /\ pc' = "except"
    /\ UNCHANGED <<envVars, run, file, results, scraped_books, stats, delay, page,
                   link, retries, caller, ret, saveRet, exc, attempts,
                   requested, skipped, loaded, lastFull, unitVars>>

\* the test of scrape_book looking at the last scraped book only
AlreadyScraped_LastOnly(books, url) ==
    Len(books) > 0 /\ books[Len(books)].url = url

\* the test of scrape_book looking only at the books scraped by this run
AlreadyScraped_ThisRunOnly(books, url) ==
    \E i \in (Len(loaded.books) + 1)..Len(books) : books[i].url = url

\* any(book['url'] == book_url for book in self.scraped_books)
AlreadyScraped(books, url) == \E i \in 1..Len(books) : books[i].url = url

\* scrape_book up to its call of make_request
ScrapeBook ==
    /\ UNCHANGED <<cause, lastTry, exit>>
    /\ pc = "link"
    /\ LET url == Links(page)[link]
       IN  IF AlreadyScraped(scraped_books, url)
           THEN /\ pc' = "after_book"
                /\ skipped' = skipped \cup {url}
                /\ UNCHANGED <<retries, attempts, caller, requested, fetch0,
                               slept, firstKind, lastKind>>
           ELSE /\ pc' = "req"
                /\ retries' = 0
                /\ attempts' = 0
                /\ caller' = "book"
                /\ requested' = requested \cup {url}
                /\ fetch0' = [stats |-> stats, delay |-> delay]
                /\ slept' = NoSleep
                /\ firstKind' = "none"
                /\ lastKind' = "none"
                /\ UNCHANGED skipped
    /\ UNCHANGED <<envVars, run, file, results, faults, scraped_books, stats, delay,
                   page, link, ret, saveRet, exc, loaded, lastFull, unitVars>>

\* book_data as built from the page of the book
BookData(url) ==
    [url |-> url, title |-> IF HasTitle(url) THEN "T" ELSE "N/A",
     scraped_at |-> run]

\* scrape_book after make_request returned, the page parses
BookReturn ==
    /\ UNCHANGED <<histVars, lastTry, exit>>
    /\ pc = "book_ret"
    /\ IF ret = "none"
       THEN UNCHANGED <<scraped_books, stats>>
       ELSE /\ scraped_books' = Append(scraped_books, BookData(Links(page)[link]))
            /\ stats' = [stats EXCEPT !.books_scraped = @ + 1]
    /\ pc' = "after_book"
    /\ UNCHANGED <<envVars, run, file, results, faults, delay, page, link, retries,
                   caller, ret, saveRet, exc, attempts, requested, skipped,
                   loaded, lastFull, unitVars>>

\* a parsing failure that has already appended the record it was building
BookParseError_PartialRecord ==
    /\ UNCHANGED <<histVars, lastTry, exit>>
    /\ pc = "book_ret"
    /\ ret = "response"
    /\ faults < budget
    /\ faults' = faults + 1
    /\ scraped_books' = Append(scraped_books,
                               [BookData(Links(page)[link]) EXCEPT
                                  !.title = "N/A"])
    /\ pc' = "after_book"
    /\ UNCHANGED <<envVars, run, file, results, stats, delay, page,
                   link, retries, caller, ret, saveRet, exc, attempts,
                   requested, skipped, loaded, lastFull, unitVars>>

\* scrape_book after make_request returned, the parsing raises (for example
\* rating['class'][1] on a one-class element): logged, None returned
BookParseError ==
    /\ UNCHANGED <<histVars, lastTry, exit>>
    /\ pc = "book_ret"
    /\ ret = "response"
    /\ faults < budget
    /\ faults' = faults + 1
    /\ pc' = "after_book"
    /\ UNCHANGED <<envVars, run, file, results, scraped_books, stats, delay, page,
                   link, retries, caller, ret, saveRet, exc, attempts,
                   requested, skipped, loaded, lastFull, unitVars>>

\* if self.stats['books_scraped'] % 10 == 0
CheckpointDue(st) == st.books_scraped % CheckpointEvery = 0

\* a periodic checkpoint taken only after a link that added a book
AfterBook_OnlyAfterNewItem ==
    /\ UNCHANGED <<histVars, lastTry, exit>>
    /\ pc = "after_book"
    /\ IF /\ CheckpointDue(stats)
          /\ Len(scraped_books) > 0
          /\ scraped_books[Len(scraped_books)].url = Links(page)[link]
          /\ Links(page)[link] \in requested
       THEN pc' = "save_open" /\ saveRet' = "periodic_print"
       ELSE pc' = "next_link" /\ UNCHANGED saveRet
    /\ UNCHANGED <<envVars, run, file, results, faults, scraped_books, stats, delay,
                   page, link, retries, caller, ret, exc, attempts, requested,
                   skipped, loaded, lastFull, unitVars>>

\* the periodic checkpoint test after scrape_book
AfterBook ==
    /\ UNCHANGED <<histVars, lastTry, exit>>
    /\ pc = "after_book"
    /\ IF CheckpointDue(stats)
       THEN pc' = "save_open" /\ saveRet' = "periodic_print"
       ELSE pc' = "next_link" /\ UNCHANGED saveRet
    /\ UNCHANGED <<envVars, run, file, results, faults, scraped_books, stats, delay,
                   page, link, retries, caller, ret, exc, attempts, requested,
                   skipped, loaded, lastFull, unitVars>>

\* self.print_stats() after the periodic save_checkpoint()
PeriodicPrint ==
    /\ pc = "periodic_print"
    /\ pc' = "next_link"
    /\ UNCHANGED <<envVars, run, file, results, faults, procVars, lastFull,
                   histVars, lastTry, exit, unitVars>>

\* the next book of the page, or page += 1
NextLink ==
    /\ UNCHANGED <<histVars, lastTry, exit>>
    /\ pc = "next_link"
    /\ IF link < Len(Links(page))
       THEN link' = link + 1 /\ pc' = "link" /\ UNCHANGED page
       ELSE page' = page + 1 /\ pc' = "page" /\ UNCHANGED link
    /\ UNCHANGED <<envVars, run, file, results, faults, scraped_books, stats, delay,
                   retries, caller, ret, saveRet, exc, attempts, requested,
                   skipped, loaded, lastFull, unitVars>>

(* ---------------- save_checkpoint ---------------- *)
\* open(self.checkpoint_file, 'w')
SaveOpen ==
    /\ lastTry' = [tried |-> TRUE, books |-> scraped_books, stats |-> stats]
    /\ UNCHANGED <<histVars, exit>>
    /\ pc = "save_open"
    /\ file' = TruncatedFile
    /\ pc' = "save_write"
    /\ UNCHANGED <<envVars, run, results, faults, procVars, lastFull, unitVars>>

\* json.dump writes the next entry of checkpoint_data
SaveWrite ==
    /\ UNCHANGED <<histVars, lastTry, exit>>
    /\ pc = "save_write"
    /\ LET all == CheckpointEntries(scraped_books, stats, run)
       IN  /\ Len(file.entries) < Len(all)
           /\ file' = [file EXCEPT
                         !.entries = Append(@, all[Len(file.entries) + 1])]
    /\ UNCHANGED <<envVars, pc, run, results, faults, procVars, lastFull, unitVars>>

\* json.dump writes the closing brace, the file is closed, save_checkpoint
\* returns
SaveClose ==
    /\ UNCHANGED <<histVars, lastTry, exit>>
    /\ pc = "save_write"
    /\ Len(file.entries) = Len(CheckpointEntries(scraped_books, stats, run))
    /\ file' = [file EXCEPT !.closed = TRUE]
    /\ lastFull' = [written |-> TRUE, books |-> scraped_books, stats |-> stats]
    /\ pc' = saveRet
    /\ UNCHANGED <<envVars, run, results, faults, procVars, unitVars>>

(* ---------------- the ways out of scrape_catalogue ---------------- *)
\* except Exception: save_checkpoint(), raise
ExceptClause ==
    /\ UNCHANGED <<histVars, lastTry, exit>>
    /\ pc = "except"
    /\ exc' = TRUE
    /\ pc' = "save_open"
    /\ saveRet' = "finally"
    /\ UNCHANGED <<envVars, run, file, results, faults, scraped_books, stats, delay,
                   page, link, retries, caller, ret, attempts, requested,
                   skipped, loaded, lastFull, unitVars>>

\* finally: save_checkpoint()
FinallyClause ==
    /\ UNCHANGED <<histVars, lastTry, exit>>
    /\ pc = "finally"
    /\ pc' = "save_open"
    /\ saveRet' = "save_results"
    /\ UNCHANGED <<envVars, run, file, results, faults, scraped_books, stats, delay,
                   page, link, retries, caller, ret, exc, attempts, requested,
                   skipped, loaded, lastFull, unitVars>>

\* finally: save_results()
SaveResults ==
    /\ UNCHANGED <<histVars, lastTry, exit>>
    /\ pc = "save_results"
    /\ results' = results + 1
    /\ pc' = "main"
    /\ UNCHANGED <<envVars, run, file, faults, procVars, lastFull, unitVars>>

\* main without its finally clause
MainOutcome_NoFinally(raised, why) ==
    IF ~raised
    THEN [code |-> 0, printed |-> TRUE]
    ELSE IF why = "interrupt"
    THEN [code |-> 0, printed |-> FALSE]
    ELSE [code |-> 0, printed |-> FALSE]

\* main once scrape_catalogue has returned or raised: the exit status of the
\* process and whether print_stats has run. Every except clause of main
\* only logs, so main returns and the interpreter exits with status 0
MainOutcome(raised, why) ==
    IF ~raised
    THEN [code |-> 0, printed |-> TRUE]
    ELSE IF why = "interrupt"
    THEN [code |-> 0, printed |-> TRUE]
    ELSE [code |-> 0, printed |-> TRUE]

\* main after scrape_catalogue returned or raised: the statistics are
\* printed and the process ends
MainExit ==
    /\ pc = "main"
    /\ pc' = "exited"
    /\ LET out == MainOutcome(exc, cause)
       IN  exit' = [code |-> out.code, printed |-> out.printed,
                    saved |-> lastTry = [tried |-> TRUE,
                                         books |-> scraped_books,
                                         stats |-> stats],
                    cause |-> cause]
    /\ ProcessGone
    /\ UNCHANGED <<envVars, run, file, results, faults, lastFull, unitVars>>

(* ---------------- KeyboardInterrupt ---------------- *)
\* the positions inside the try block of scrape_catalogue
InTry ==
    \/ pc \in {"page", "req", "page_ret", "link", "book_ret", "after_book",
               "periodic_print", "next_link"}
    \/ pc \in {"save_open", "save_write"} /\ saveRet = "periodic_print"

\* a KeyboardInterrupt is raised in the try block of scrape_catalogue, between
\* two steps of the crawl
Interrupt ==
    /\ InTry
    /\ cause' = "interrupt"
    /\ pc' = "kbd_except"
    /\ UNCHANGED <<envVars, run, file, results, faults, procVars, lastFull,
                   fetch0, slept, firstKind, lastKind, lastTry, exit,
                   unitVars>>

\* a KeyboardInterrupt is raised inside make_request, in time.sleep or in
\* session.get: the request has been counted, the attempt is abandoned
InterruptInFlight ==
    /\ pc = "req"
    /\ stats' = Counted
    /\ cause' = "interrupt"
    /\ pc' = "kbd_except"
    /\ UNCHANGED <<envVars, run, file, results, faults, scraped_books, delay,
                   page, link, retries, caller, ret, saveRet, exc, attempts,
                   requested, skipped, loaded, lastFull, fetch0, slept,
                   firstKind,
                   lastKind,
                   lastTry, exit, unitVars>>

\* a KeyboardInterrupt is raised inside scrape_book between
\* self.scraped_books.append(book_data) and self.stats['books_scraped'] += 1:
\* the book is in the list, the counter has not moved
InterruptAfterAppend ==
    /\ pc = "book_ret"
    /\ ret = "response"
    /\ scraped_books' = Append(scraped_books, BookData(Links(page)[link]))
    /\ cause' = "interrupt"
    /\ pc' = "kbd_except"
    /\ UNCHANGED <<envVars, run, file, results, faults, stats, delay, page, link,
                   retries, caller, ret, saveRet, exc, attempts, requested,
                   skipped, loaded, lastFull, fetch0, slept, firstKind,
                   lastKind, lastTry, exit, unitVars>>

\* except KeyboardInterrupt: save_checkpoint()
KbdExcept ==
    /\ pc = "kbd_except"
    /\ pc' = "save_open"
    /\ saveRet' = "kbd_print"
    /\ UNCHANGED <<envVars, run, file, results, faults, scraped_books, stats,
                   delay, page, link, retries, caller, ret, exc, attempts,
                   requested, skipped, loaded, lastFull, histVars, lastTry,
                   exit, unitVars>>

\* a KeyboardInterrupt handler that writes the results file itself
KbdPrint_AlsoSavesResults ==
    /\ pc = "kbd_print"
    /\ exc' = TRUE
    /\ results' = results + 1
    /\ pc' = "finally"
    /\ UNCHANGED <<envVars, run, file, faults, scraped_books, stats,
                   delay, page, link, retries, caller, ret, saveRet, attempts,
                   requested, skipped, loaded, lastFull, histVars, lastTry,
                   exit, unitVars>>

\* except KeyboardInterrupt: print_stats(), raise
KbdPrint ==
    /\ pc = "kbd_print"
    /\ exc' = TRUE
    /\ pc' = "finally"
    /\ UNCHANGED <<envVars, run, file, results, faults, scraped_books, stats,
                   delay, page, link, retries, caller, ret, saveRet, attempts,
                   requested, skipped, loaded, lastFull, histVars, lastTry,
                   exit, unitVars>>

(* ---------------- the environment of the process ---------------- *)
Running ==
    pc \notin {"start", "exited", "crashed", "load_failed", "unit_delay",
               "unit_classify"}

\* the process is killed (power loss, SIGKILL): no handler runs
Crash ==
    /\ UNCHANGED exit
    /\ Running
    /\ run < MaxRuns
    /\ pc' = "crashed"
    /\ ProcessGone
    /\ UNCHANGED <<envVars, run, file, results, faults, lastFull, unitVars>>

\* the program is started again against the same checkpoint file
Restart ==
    /\ exit' = NoExit
    /\ UNCHANGED <<histVars, lastTry>>
    /\ pc \in {"exited", "crashed"}
    /\ run < MaxRuns
    /\ run' = run + 1
    /\ pc' = "start"
    /\ UNCHANGED <<envVars, file, results, faults, procVars, lastFull, unitVars>>

Next ==
    \/ Construct
    \/ StartCatalogue
    \/ FetchPage
    \/ RequestResponse
    \/ RequestTimeout
    \/ RequestError
    \/ PageReturn
    \/ ListingParseError
    \/ ScrapeBook
    \/ BookReturn
    \/ BookParseError
    \/ AfterBook
    \/ PeriodicPrint
    \/ NextLink
    \/ SaveOpen
    \/ SaveWrite
    \/ SaveClose
    \/ ExceptClause
    \/ FinallyClause
    \/ SaveResults
    \/ MainExit
    \/ Crash
    \/ Restart

Spec == Init /\ [][Next]_vars

\* the crawl of the small site, with enough adverse events to exhaust the
\* retries of a fetch
InitFetch ==
    /\ site = SmallCatalogue
    /\ budget = MaxFetchFaults
    /\ pc = "start"
    /\ run = 1
    /\ file = NoFile
    /\ results = 0
    /\ faults = 0
    /\ InitProcess
    /\ lastFull = NoSave
    /\ exit = NoExit
    /\ uIn = NoResponse
    /\ uOut = NoCall
    /\ uCalls = 0

NextFetch ==
    \/ Construct
    \/ StartCatalogue
    \/ FetchPage
    \/ RequestResponse
    \/ RequestTimeout
    \/ RequestError
    \/ PageReturn
    \/ ListingParseError
    \/ ScrapeBook
    \/ BookReturn
    \/ BookParseError
    \/ AfterBook
    \/ PeriodicPrint
    \/ NextLink
    \/ SaveOpen
    \/ SaveWrite
    \/ SaveClose
    \/ ExceptClause
    \/ FinallyClause
    \/ SaveResults
    \/ MainExit

SpecFetch == InitFetch /\ [][NextFetch]_vars

\* a fresh start on the two-page site
InitLive ==
    /\ site = TinyCatalogue
    /\ budget = MaxLiveFaults
    /\ pc = "start"
    /\ run = 1
    /\ file = NoFile
    /\ results = 0
    /\ faults = 0
    /\ InitProcess
    /\ lastFull = NoSave
    /\ exit = NoExit
    /\ uIn = NoResponse
    /\ uOut = NoCall
    /\ uCalls = 0

\* the crawl as a single sequential thread that is never suspended for ever:
\* a step that can be taken is eventually taken
SpecLive == InitLive /\ [][NextFetch]_vars /\ WF_vars(NextFetch)

\* the crawl of the small site under adverse events and a KeyboardInterrupt
NextExit ==
    \/ NextFetch
    \/ Interrupt
    \/ InterruptInFlight
    \/ InterruptAfterAppend
    \/ KbdExcept
    \/ KbdPrint

SpecExit == InitFetch /\ [][NextExit]_vars

(* ---------------- unit specification: the rate controller ---------- *)
\* a scraper whose adaptive_delay is called directly, starting from the
\* initial delay or from a delay the clamps produce
InitDelay ==
    /\ site = Catalogue
    /\ budget = 0
    /\ pc = "unit_delay"
    /\ run = 1
    /\ file = NoFile
    /\ results = 0
    /\ faults = 0
    /\ scraped_books = <<>>
    /\ stats = InitialStats(0)
    /\ delay \in {InitialDelay, min_delay, max_delay}
    /\ page = 0
    /\ link = 0
    /\ retries = 0
    /\ caller = "none"
    /\ ret = "none"
    /\ saveRet = "none"
    /\ exc = FALSE
    /\ attempts = 0
    /\ requested = {}
    /\ skipped = {}
    /\ loaded = NoLoad
    /\ cause = "none"
    /\ lastTry = NoTry
    /\ fetch0 = NoFetch
    /\ slept = NoSleep
    /\ firstKind = "none"
    /\ lastKind = "none"
    /\ lastFull = NoSave
    /\ exit = NoExit
    /\ uIn = NoResponse
    /\ uOut = NoCall
    /\ uCalls = 0

\* adaptive_delay(True)
AdaptSuccess ==
    /\ UNCHANGED <<histVars, lastTry, exit>>
    /\ pc = "unit_delay"
    /\ uCalls < MaxAdapt
    /\ delay' = adaptive_delay(delay, TRUE)
    /\ uOut' = [op |-> "success", blocked |-> FALSE, before |-> delay]
    /\ uCalls' = uCalls + 1
    /\ UNCHANGED <<envVars, pc, run, file, results, faults, scraped_books,
                   stats, page, link, retries, caller, ret, saveRet, exc,
                   attempts, requested, skipped, loaded, lastFull, uIn>>

\* adaptive_delay(False)
AdaptFailure ==
    /\ UNCHANGED <<histVars, lastTry, exit>>
    /\ pc = "unit_delay"
    /\ uCalls < MaxAdapt
    /\ delay' = adaptive_delay(delay, FALSE)
    /\ uOut' = [op |-> "failure", blocked |-> FALSE, before |-> delay]
    /\ uCalls' = uCalls + 1
    /\ UNCHANGED <<envVars, pc, run, file, results, faults, scraped_books,
                   stats, page, link, retries, caller, ret, saveRet, exc,
                   attempts, requested, skipped, loaded, lastFull, uIn>>

NextDelay == AdaptSuccess \/ AdaptFailure

SpecDelay == InitDelay /\ [][NextDelay]_vars

(* ---------------- unit specification: the block detector ---------- *)
\* a constructed scraper whose detect_blocking is called on one response
InitClassify ==
    /\ site = Catalogue
    /\ budget = 0
    /\ pc = "unit_classify"
    /\ run = 1
    /\ file = NoFile
    /\ results = 0
    /\ faults = 0
    /\ InitProcess
    /\ lastFull = NoSave
    /\ exit = NoExit
    /\ uIn \in UnitResponses
    /\ uOut = NoCall
    /\ uCalls = 0

\* detect_blocking(response)
Classify ==
    /\ UNCHANGED <<histVars, lastTry, exit>>
    /\ pc = "unit_classify"
    /\ uCalls = 0
    /\ LET d == detect_blocking(stats, uIn)
       IN  /\ stats' = d.stats
           /\ uOut' = [op |-> "classify", blocked |-> d.blocked,
                       before |-> delay]
    /\ uCalls' = 1
    /\ UNCHANGED <<envVars, pc, run, file, results, faults, scraped_books,
                   delay, page, link, retries, caller, ret, saveRet, exc,
                   attempts, requested, skipped, loaded, lastFull, uIn>>

NextClassify == Classify

SpecClassify == InitClassify /\ [][NextClassify]_vars

(* ======================= properties ======================= *)
Keys(books) == {books[i].url : i \in 1..Len(books)}
BookSet(books) == {books[i] : i \in 1..Len(books)}
Counters ==
    {"total_requests", "successful_requests", "failed_requests", "retries",
     "blocked_detections", "books_scraped"}
FetchReturned == pc \in {"page_ret", "book_ret"}

\* C1: one logical fetch (make_request called with retries = 0) sends at most
\* max_retries + 1 HTTP requests, whatever the server answers.
C1_RetryBound == attempts <= max_retries + 1

\* a fetch that used all its attempts and gave up
C1_Witness ==
    FetchReturned /\ ret = "none" /\ attempts = max_retries + 1

\* C2: what a fresh scraper loads from a completely written checkpoint is the
\* state that was saved: the same books with the same fields and the same
\* value of every counter.
C2_RoundTrip ==
    (pc = "idle" /\ Parses(file)) =>
        /\ lastFull.written
        /\ BookSet(scraped_books) = BookSet(lastFull.books)
        /\ Keys(scraped_books) = Keys(lastFull.books)
        /\ \A c \in Counters : stats[c] = lastFull.stats[c]

\* a second run has loaded a checkpoint holding books and non-zero counters
C2_Witness ==
    /\ pc = "idle"
    /\ run = 2
    /\ Parses(file)
    /\ Len(scraped_books) >= 5
    /\ stats.retries = 1
    /\ stats.total_requests > stats.successful_requests

\* C3 (as claimed): at every point of a crawl the number of live items absent
\* from the last completely written checkpoint is at most
\* CheckpointEvery - 1 = 9.
C3_AtMostNineUnsaved ==
    Running =>
        Cardinality(Keys(scraped_books) \ Keys(lastFull.books))
            <= CheckpointEvery - 1

\* C4: the item list never holds two entries with the same key, in a fresh
\* or a resumed crawl, whatever keys the pages repeat.
C4_NoDuplicateKeys ==
    \A i, j \in 1..Len(scraped_books) :
        i # j => scraped_books[i].url # scraped_books[j].url

\* a resumed crawl that met a key repeated on one page and a key of the
\* checkpoint again, and went on to append new items
C4_Witness ==
    /\ run = 2
    /\ Len(loaded.books) > 0
    /\ 2 \in skipped
    /\ 5 \in skipped
    /\ Len(scraped_books) > Len(loaded.books)

\* C5: in a crawl resumed from a checkpoint holding the keys K, no request is
\* sent for a key of K, the loaded items stay in place, only keys outside K
\* are appended, and books_scraped grows by the number of appended items.
C5_ResumeNoDuplicateWork ==
    Running =>
        /\ requested \cap Keys(loaded.books) = {}
        /\ Len(scraped_books) >= Len(loaded.books)
        /\ SubSeq(scraped_books, 1, Len(loaded.books)) = loaded.books
        /\ \A i \in (Len(loaded.books) + 1)..Len(scraped_books) :
               scraped_books[i].url \notin Keys(loaded.books)
        /\ stats.books_scraped - loaded.stats.books_scraped
               = Len(scraped_books) - Len(loaded.books)

\* five keys loaded, met again on the pages, three new keys appended
C5_Witness ==
    /\ Running
    /\ Len(loaded.books) = 5
    /\ Keys(loaded.books) \subseteq skipped
    /\ requested = {6, 7, 8}
    /\ Len(scraped_books) = 8
    /\ stats.books_scraped = loaded.stats.books_scraped + 3

\* C6: a call adaptive_delay(True) never raises the delay and never takes it
\* below min_delay.
C6_SuccessMonotone ==
    uOut.op = "success" =>
        /\ Leq(delay, uOut.before)
        /\ Leq(min_delay, delay)

\* a successful outcome that lowered the delay onto the floor
C6_Witness ==
    /\ uOut.op = "success"
    /\ delay = min_delay
    /\ uOut.before # min_delay

\* C7: a call adaptive_delay(False) never lowers the delay and never takes it
\* above max_delay.
C7_FailureMonotone ==
    uOut.op = "failure" =>
        /\ Leq(uOut.before, delay)
        /\ Leq(delay, max_delay)

\* a failure that raised the delay onto the ceiling
C7_Witness ==
    /\ uOut.op = "failure"
    /\ delay = max_delay
    /\ uOut.before # max_delay

\* the upper-case form of a letter of "captcha"
UpperOf(c) ==
    CASE c = "c" -> "C"
      [] c = "a" -> "A"
      [] c = "p" -> "P"
      [] c = "t" -> "T"
      [] c = "h" -> "H"

\* text holds "captcha" at some position, each letter in either case
HoldsCaptcha(text) ==
    \E i \in 1..(Len(text) - Len(Captcha) + 1) :
        \A j \in 1..Len(Captcha) :
            text[i + j - 1] \in {Captcha[j], UpperOf(Captcha[j])}

\* C8: detect_blocking reports blocked exactly when the status is 403 or 429
\* or the body holds "captcha" in any mix of cases.
C8_BlockedIff ==
    uOut.op = "classify" =>
        (uOut.blocked <=> (uIn.status \in {403, 429} \/ HoldsCaptcha(uIn.text)))

\* a clean status whose body holds the word in mixed case, found blocked
C8_Witness ==
    /\ uOut.op = "classify"
    /\ uOut.blocked
    /\ uIn.status = 200
    /\ uIn.text = <<"X", "C", "A", "P", "T", "C", "H", "A", "X">>

\* C9: construction never fails on the checkpoint: with no file, or a file
\* that does not parse, the scraper starts with no items and zero counters.
C9_LoadNeverFatal ==
    /\ pc # "load_failed"
    /\ (pc = "idle" /\ ~Parses(file)) =>
           /\ scraped_books = <<>>
           /\ \A c \in Counters : stats[c] = 0

\* a run constructed over a checkpoint a crash left half written
C9_Witness ==
    /\ pc = "idle"
    /\ run = 2
    /\ file.exists
    /\ ~file.closed
    /\ Len(file.entries) > 0
    /\ lastFull.written

\* C10 (as claimed): whoever reads the checkpoint file, at any moment, finds
\* a complete checkpoint, never an empty or partly written file.
C10_AtomicReplace == file.exists => Parses(file)

(* ---------------- the exits of a run ---------------- *)
\* C11: on every exit path of a run (normal completion, page-fetch abort,
\* interruption, exception in the crawl loop) save_checkpoint has been called
\* on the final books and stats, and print_stats has run, when the process
\* exits
C11_SaveAndStatsOnEveryExit ==
    pc = "exited" => exit.saved /\ exit.printed

\* an interrupted run has exited, saved and reported
C11_Witness ==
    /\ pc = "exited"
    /\ exit.cause = "interrupt"
    /\ exit.saved
    /\ exit.printed
    /\ file.exists

\* C12: an interrupted run exits with a non-zero status, which tells it from
\* a run that completed
C12_InterruptedExitsNonZero ==
    pc = "exited" /\ exit.cause = "interrupt" => exit.code # 0

\* C13: a cancellation is observed between attempts only: when the
\* KeyboardInterrupt handler starts, every request counted has had its
\* outcome recorded (retried, failed or successful)
C13_CancelBetweenAttempts ==
    pc = "kbd_except" =>
        stats.total_requests = stats.successful_requests
                               + stats.failed_requests + stats.retries

(* ---------------- parse failures ---------------- *)
\* C14: a parse failure, of an item page or of a listing entry, never aborts
\* the crawl: no run ends because of a parse failure
C14_ParseFailureNeverAborts ==
    pc = "exited" => exit.cause # "parse_error"

\* a step in which the parsing of an item page or of a listing entry raises
ParseFails ==
    \/ pc = "book_ret" /\ ret = "response" /\ faults' = faults + 1
    \/ pc = "link" /\ pc' = "except"

\* C15: a parse failure leaves the item list and the books_scraped counter
\* exactly as they were before the page was parsed
C15_ParseFailureKeepsData ==
    [][ParseFails => /\ scraped_books' = scraped_books
                     /\ stats'.books_scraped = stats.books_scraped]_vars

\* the page of a requested book failed to parse after other books had been
\* recorded: the book is not in the list
C15_Witness ==
    /\ pc = "after_book"
    /\ ret = "response"
    /\ Links(page)[link] \in requested
    /\ Links(page)[link] \notin Keys(scraped_books)
    /\ Len(scraped_books) > 0
    /\ stats.books_scraped = Len(scraped_books)

(* ---------------- counters ---------------- *)
\* C16: every counter of stats is non-decreasing over every step of a run,
\* the load of a saved checkpoint at construction included
C16_CountersMonotone ==
    [][pc' \notin {"exited", "crashed"} =>
          \A c \in Counters : stats'[c] >= stats[c]]_vars

\* a second run loaded non-zero counters and went on counting from them
C16_Witness ==
    /\ run = 2
    /\ loaded.stats.total_requests > 0
    /\ loaded.stats.books_scraped > 0
    /\ stats.total_requests > loaded.stats.total_requests
    /\ stats.books_scraped > loaded.stats.books_scraped

(* ---------------- the outcomes of a fetch ---------------- *)
\* the fetch is running or has just returned to its caller
InFetch == pc \in {"req", "page_ret", "book_ret"}

\* the change of a counter since the running fetch began
Delta(c) == stats[c] - fetch0.stats[c]

\* the first response of the fetch was blocked and was retried
BlockedOnce == pc = "req" /\ attempts = 1 /\ lastKind = "blocked"

\* the first response of the fetch was blocked, the second was clean
BlockedThenSuccess ==
    /\ FetchReturned
    /\ attempts = 2
    /\ firstKind = "blocked"
    /\ lastKind = "ok"

\* C17 as stated: after the blocked first response the delay is strictly
\* higher than it was when the fetch began
C17_DelayRaisedAfterBlocked ==
    BlockedOnce => ~Leq(delay, fetch0.delay)

\* C17: a blocked first response followed by a clean one: the fetch succeeds
\* with blocked_detections and retries increased by exactly 1; the delay
\* after the blocked response is the delay the fetch began with, and after
\* the clean response it is max(min_delay, 0.9 x that delay), lower unless
\* already at min_delay
C17_BlockedThenSuccess ==
    /\ BlockedOnce =>
          /\ delay = fetch0.delay
          /\ Delta("blocked_detections") = 1
          /\ Delta("retries") = 1
    /\ BlockedThenSuccess =>
          /\ ret = "response"
          /\ Delta("blocked_detections") = 1
          /\ Delta("retries") = 1
          /\ Delta("successful_requests") = 1
          /\ Delta("failed_requests") = 0
          /\ delay = RMax(min_delay, Mul(fetch0.delay, SuccessFactor))
          /\ Leq(delay, fetch0.delay)
          /\ fetch0.delay # min_delay => delay # fetch0.delay

\* a fetch blocked once and then served, that began above min_delay
C17_Witness ==
    /\ BlockedThenSuccess
    /\ ret = "response"
    /\ fetch0.delay # min_delay
    /\ delay # fetch0.delay

\* the fetch gave up and none of its attempts was classified blocked: every
\* attempt ended in the Timeout or the RequestException handler
ExhaustedByErrors ==
    /\ FetchReturned
    /\ ret = "none"
    /\ Delta("blocked_detections") = 0

\* C18: a fetch all of whose attempts time out or fail sends exactly
\* max_retries + 1 requests, gives up, counts one failed request and
\* max_retries retries, and raises the delay exactly once
C18_ExhaustedByErrors ==
    ExhaustedByErrors =>
        /\ attempts = max_retries + 1
        /\ Delta("total_requests") = max_retries + 1
        /\ Delta("failed_requests") = 1
        /\ Delta("retries") = max_retries
        /\ Delta("successful_requests") = 0
        /\ delay = RMin(max_delay, Mul(fetch0.delay, FailureFactor))

\* six attempts, the first a timeout and the last a connection error
C18_Witness ==
    /\ ExhaustedByErrors
    /\ firstKind = "timeout"
    /\ lastKind = "error"
    /\ attempts = max_retries + 1
    /\ delay # fetch0.delay

\* C19: a fetch that gives up on a blocked response at the last allowed
\* attempt leaves the delay at min(max_delay, 1.5 x the delay before it)
C19_BlockedExhaustionRaisesDelay ==
    FetchReturned /\ ret = "none" /\ lastKind = "blocked" =>
        delay = RMin(max_delay, Mul(fetch0.delay, FailureFactor))

\* C20 as stated: every response that is not classified blocked, a 404 or a
\* 500 included, ends the fetch on that attempt and is counted successful
C20_NonBlockedEndsFetch ==
    InFetch /\ lastKind \in {"ok", "http_error"} =>
        /\ FetchReturned
        /\ Delta("successful_requests") = 1

\* C20: a response that is neither blocked nor a 4xx/5xx status ends the
\* fetch on that attempt, counted successful with a success outcome; a
\* non-blocked 4xx/5xx status is handled as a request error: retried while
\* attempts remain, then counted failed with a failure outcome and None
\* returned, and never counted successful
C20_NonBlockedResponse ==
    /\ InFetch /\ lastKind = "ok" =>
          /\ FetchReturned
          /\ ret = "response"
          /\ Delta("successful_requests") = 1
          /\ Delta("failed_requests") = 0
          /\ Delta("retries") = attempts - 1
          /\ delay = adaptive_delay(fetch0.delay, TRUE)
    /\ InFetch /\ lastKind = "http_error" =>
          /\ Delta("successful_requests") = 0
          /\ IF pc = "req"
             THEN /\ attempts <= max_retries
                  /\ Delta("retries") = attempts
                  /\ Delta("failed_requests") = 0
                  /\ delay = fetch0.delay
             ELSE /\ ret = "none"
                  /\ attempts = max_retries + 1
                  /\ Delta("retries") = max_retries
                  /\ Delta("failed_requests") = 1
                  /\ delay = adaptive_delay(fetch0.delay, FALSE)

\* a fetch that met an error status on every attempt and gave up
C20_Witness ==
    /\ FetchReturned
    /\ firstKind = "http_error"
    /\ lastKind = "http_error"
    /\ ret = "none"
    /\ Delta("blocked_detections") = 0
    /\ Delta("failed_requests") = 1

(* ---------------- sleeps and backoff ---------------- *)
\* an attempt ended in a timeout or a network error and is being retried
ErrorRetried ==
    pc = "req" /\ attempts >= 1 /\ lastKind \in {"timeout", "error"}

\* C21: after a network or timeout error on attempt a < max_retries the fetch
\* has slept delay x (a + 1) and counted one more retry before attempt a + 1
C21_LinearBackoffOnError ==
    ErrorRetried =>
        /\ slept.wait = Mul(fetch0.delay, <<attempts, 1>>)
        /\ Delta("retries") = attempts

(* ---------------- the results file ---------------- *)
\* C22: save_results writes the results file exactly once per run, at the
\* end of the run on every terminating path, after the last save_checkpoint
\* has completed on the final books and stats
C22_ResultsOncePerRun ==
    /\ pc \notin {"main", "exited"} => results = 0
    /\ pc \in {"main", "exited"} => results = 1
    /\ pc = "main" =>
          lastFull = [written |-> TRUE, books |-> scraped_books,
                      stats |-> stats]

\* a run ended by an exception in the crawl loop has written its results
C22_Witness ==
    /\ pc = "exited"
    /\ exit.cause = "parse_error"
    /\ results = 1

(* ---------------- termination ---------------- *)
\* the page loop of scrape_catalogue has been left
LoopLeft ==
    \/ pc \in {"except", "finally", "save_results", "main", "exited"}
    \/ pc \in {"save_open", "save_write"}
       /\ saveRet \in {"finally", "save_results"}

\* C23: the page loop stops as soon as a page holds no book or its fetch
\* gave up, nothing is fetched once the loop has been left, and every crawl
\* of the finite catalogue ends
C23_CrawlTerminates ==
    /\ [][pc = "page_ret" /\ (ret = "none" \/ Links(page) = <<>>)
             => pc' = "finally"]_vars
    /\ [][LoopLeft => LoopLeft' /\ pc' # "req"]_vars
    /\ <>(pc = "exited")

\* a crawl that ended because the fetch of a page ran out of retries
C23_Witness ==
    /\ pc = "exited"
    /\ exit.cause = "fetch_failed"
    /\ faults >= max_retries + 1

\* a step in which a response is classified blocked and the fetch retries
BlockedRetry ==
    pc = "req" /\ pc' = "req" /\ attempts' = attempts + 1 /\ lastKind' = "blocked"

\* C24: a response classified blocked on attempt a < max_retries makes the
\* fetch sleep delay x 2^a and count exactly one retry, the delay unchanged;
\* attempt a + 1 follows and begins with the base sleep of the delay
C24_ExponentialBackoffOnBlocked ==
    [][/\ BlockedRetry =>
             /\ retries < max_retries
             /\ slept'.wait = Mul(delay, <<2 ^ retries, 1>>)
             /\ stats'.retries = stats.retries + 1
             /\ retries' = retries + 1
             /\ delay' = delay
       /\ pc = "req" /\ lastKind = "blocked" /\ attempts' = attempts + 1 =>
             slept'.base = delay]_vars

\* the third blocked response in a row has been followed by a sleep of four
\* times the delay
C24_Witness ==
    /\ pc = "req"
    /\ lastKind = "blocked"
    /\ firstKind = "blocked"
    /\ retries = 3
    /\ Delta("blocked_detections") = 3
    /\ slept.wait = Mul(fetch0.delay, <<4, 1>>)

\* C25: every request, of a first attempt or of a retry, is sent after a
\* sleep of the current delay, which is at least min_delay
C25_SleepBeforeEveryRequest ==
    [][attempts' = attempts + 1 =>
          /\ slept'.base = delay
          /\ Leq(min_delay, slept'.base)]_vars

\* a fetch served at its third attempt, each after the base sleep
C25_Witness ==
    /\ FetchReturned
    /\ ret = "response"
    /\ attempts = 3
    /\ slept.base = fetch0.delay
    /\ Leq(min_delay, slept.base)

(* ---------------- the checkpoint file at startup ---------------- *)
\* C26: once the scraper is constructed and before the first page is
\* fetched, a loadable checkpoint file is present
C26_CheckpointCreatedAtStartup ==
    pc = "idle" => Parses(file)

(* ---------------- request accounting ---------------- *)
\* C27: from a fresh start and without interruption, whenever no fetch is in
\* progress every request counted has ended as a success, a retry or a
\* failure: total_requests = successful_requests + failed_requests + retries
C27_RequestAccounting ==
    pc # "req" =>
        stats.total_requests = stats.successful_requests
                               + stats.failed_requests + stats.retries

\* a fetch has just returned and all three outcomes have been counted
C27_Witness ==
    /\ FetchReturned
    /\ stats.successful_requests >= 1
    /\ stats.failed_requests >= 1
    /\ stats.retries >= max_retries
    /\ stats.total_requests >= max_retries + 2

(* ---------------- item count ---------------- *)
\* C28: between two book links and at every checkpoint save books_scraped is
\* the number of entries of scraped_books, wherever an interruption arrives
C28_CountMatchesList ==
    pc \in {"link", "after_book", "next_link", "save_open", "save_write",
            "periodic_print"} =>
        stats.books_scraped = Len(scraped_books)

(* ---------------- the periodic checkpoint ---------------- *)
\* C29: after every book link, whether it added a book, was skipped as
\* already scraped or failed, save_checkpoint and then print_stats run exactly
\* when books_scraped is a multiple of 10 at that moment; otherwise the loop
\* goes straight on
C29_TriggerAfterEveryLink ==
    [][/\ pc = "after_book" /\ pc' # "crashed" =>
             IF stats.books_scraped % CheckpointEvery = 0
             THEN pc' = "save_open" /\ saveRet' = "periodic_print"
             ELSE pc' = "next_link"
       /\ pc' = "periodic_print" =>
             /\ pc = "save_write"
             /\ stats.books_scraped % CheckpointEvery = 0
             /\ Parses(file')
       /\ pc = "periodic_print" /\ pc' # "crashed" => pc' = "next_link"]_vars

\* a resumed run with ten books loaded skips a link as already scraped and
\* saves again, books_scraped still at ten
C29_Witness ==
    /\ pc = "periodic_print"
    /\ run = 2
    /\ loaded.stats.books_scraped = CheckpointEvery
    /\ stats.books_scraped = CheckpointEvery
    /\ Links(page)[link] \in skipped
    /\ requested = {}

(* ---------------- the delay within a fetch ---------------- *)
\* C30: within one fetch the delay is the one the fetch began with until the
\* terminal outcome, where it changes at most once (adaptive_delay of that
\* value); every base sleep and every backoff of the fetch is computed from
\* the delay the fetch began with
C30_DelayConstantWithinFetch ==
    /\ pc = "req" => delay = fetch0.delay
    /\ FetchReturned =>
          delay \in {fetch0.delay, adaptive_delay(fetch0.delay, TRUE),
                     adaptive_delay(fetch0.delay, FALSE)}
    /\ InFetch /\ attempts >= 1 =>
          /\ slept.base = fetch0.delay
          /\ slept.wait \in
                {<<0, 1>>} \cup {Mul(fetch0.delay, <<attempts, 1>>),
                                 Mul(fetch0.delay, <<2 ^ (attempts - 1), 1>>)}

\* a fetch that was blocked first and gave up on a connection error at its
\* sixth attempt: the delay moved once, at the end
C30_Witness ==
    /\ FetchReturned
    /\ ret = "none"
    /\ attempts = max_retries + 1
    /\ firstKind = "blocked"
    /\ lastKind = "error"
    /\ slept.base = fetch0.delay
    /\ delay = adaptive_delay(fetch0.delay, FALSE)
    /\ delay # fetch0.delay

====
